---- MODULE Spec2Model ----
(***************************************************************************)
(* Dialogue state machine of the profiling agent (backend/main.py,         *)
(* backend/graph/profiling_graph.py, backend/agents/nodes).                *)
(*                                                                         *)
(* A session state is a record with the fields of models.AgentState.       *)
(* Python values are encoded as strings: None is "<None>", an unset intent *)
(* is "<unset>", a key missing from a dict is "<absent>".  A message is a  *)
(* tuple of strings: the template that produced it and its arguments.      *)
(*                                                                         *)
(* The graph runs the nodes on one state object per invocation: what a     *)
(* node or the router assigns to the state is seen by the next step.  The  *)
(* state object is built from the input dict (pydantic copies containers), *)
(* so a node never writes into the dict held by SESSIONS; main.py itself   *)
(* does (line 87-88).  The classifier, the table extraction and the SQL    *)
(* engine are external: their outcomes are chosen by the environment.      *)
(***************************************************************************)
EXTENDS Integers, Sequences, FiniteSets, TLC

VARIABLES SESSIONS, turns, last, lastAsked, reqs, routeIn, routeOut

vars == <<SESSIONS, turns, last, lastAsked, reqs, routeIn, routeOut>>
routerVars == <<routeIn, routeOut>>

\* ---------------------------------------------------------------- bounds
MaxTurns == 3
MaxAsyncTurns == 3

\* ------------------------------------------------------- encoded values
Unset == "<unset>"
Absent == "<absent>"
NoneVal == "<None>"
NoPayload == "<none>"
DefaultSession == "session-default"

Keys == {"table", "intent", "filters"}
EmptyCtx == [k \in Keys |-> Absent]

RawSessionIds == {""}
SessionIds == {DefaultSession, "s1"}
RawTexts == {"  ", "emp", " dept "}
CallerContexts == {EmptyCtx, [EmptyCtx EXCEPT !["table"] = "acct"]}
ClassifierOutcomes == {Unset, "nulls", "distincts", "Distincts", "schema", "raise"}
ExtractOutcomes == {NoneVal, "emp"}
HandlerOutcomes == {"ok", "sqlfail", "execfail", "raise"}
ExistingTables == {"emp"}

\* ------------------------------------------------------ python helpers
\* str.strip() on the texts of the model
Strip(t) ==
    CASE t = "  " -> ""
      [] t = " dept " -> "dept"
      [] OTHER -> t

\* (state.intent or "").lower().strip()
LowerStrip(i) ==
    CASE i = Unset -> ""
      [] i = "  " -> ""
      [] i = " Nulls " -> "nulls"
      [] i = "Distincts" -> "distincts"
      [] i = "None" -> "none"
      [] OTHER -> i

\* truth value of a python value
Truthy(v) == v \notin {Absent, NoneVal, Unset, ""}

\* truth value of a dict: it has at least one key
DictTruthy(c) == \E k \in Keys : c[k] # Absent

\* dict.update
DictUpdate(c, u) == [k \in Keys |-> IF u[k] # Absent THEN u[k] ELSE c[k]]

\* ------------------------------------------------------------ messages
MsgNone == <<>>
MsgEnter == <<"enter_message">>
MsgGuidance == <<"guidance">>
MsgUnsupported(i) == <<"unsupported", i>>
MsgAsk(p) == <<"ask", p>>
MsgGot(p, v) == <<"got", p, v>>
MsgThanks(p, v, n) == <<"thanks", p, v, n>>
MsgNoIntent == <<"no_profiling_type">>
MsgDetectFailed == <<"detect_failed">>
MsgSummary(h) == <<"summary", h>>
MsgSqlFail == <<"could_not_generate_sql">>
MsgExecFail == <<"error_executing_sql">>
MsgNoMessage == <<"no_message_returned">>

\* the message asks the caller for parameter p
AsksAbout(m, p) ==
    \/ m = MsgAsk(p)
    \/ Len(m) = 4 /\ m[1] = "thanks" /\ m[4] = p
    \/ p = "intent" /\ Len(m) >= 1 /\ m[1] \in {"guidance", "unsupported"}

\* the parameter a message asks for, "<none>" when it asks for none
AskedParam(m) ==
    IF \E p \in Keys : AsksAbout(m, p)
    THEN CHOOSE p \in Keys : AsksAbout(m, p)
    ELSE NoPayload

\* ---------------------------------------------------------- AgentState
FreshState(sid, text, ctx) ==
    [ session_id |-> sid,
      userText |-> text,
      userText_history |-> <<text>>,
      resumed |-> FALSE,
      intent |-> Unset,
      awaiting_input |-> FALSE,
      missing_params |-> <<>>,
      context |-> ctx,
      message |-> MsgNone,
      payload |-> NoPayload,
      next_prompt |-> NoPayload,
      provenance |-> Absent ]

NoState == FreshState(DefaultSession, "", EmptyCtx)

\* -------------------------------------------------- IntentDetectionNode
\* the classifier is called on every non-empty turn
IntentDetectionNode_run_Always(st, cls) ==
    IF Strip(st.userText) = ""
    THEN [st EXCEPT !.message = <<"tell_me_what_profiling">>, !.intent = Unset]
    ELSE IF cls = "raise"
    THEN [st EXCEPT !.intent = "None", !.message = MsgDetectFailed]
    ELSE [st EXCEPT !.intent = cls,
                    !.provenance = cls,
                    !.message = IF Truthy(cls) THEN st.message ELSE MsgNoIntent]

\* intent_detection_node.py 50-105
IntentDetectionNode_run(st, cls) ==
    IF Truthy(st.intent) THEN st
    ELSE IF Strip(st.userText) = ""
    THEN [st EXCEPT !.message = <<"tell_me_what_profiling">>, !.intent = Unset]
    ELSE IF cls = "raise"
    THEN [st EXCEPT !.intent = "None", !.message = MsgDetectFailed]
    ELSE [st EXCEPT !.intent = cls,
                    !.provenance = cls,
                    !.message = IF Truthy(cls) THEN st.message ELSE MsgNoIntent]

\* -------------------------------------------------------------- router
\* the ask without raising awaiting_input
AskForIntent_NoAwait(st, msg) ==
    [st EXCEPT !.message = msg,
               !.missing_params = <<"intent">>]

\* profiling_graph.py 36-41 and 51-53: the router's own ask for the intent
AskForIntent(st, msg) ==
    [st EXCEPT !.message = msg,
               !.awaiting_input = TRUE,
               !.missing_params = <<"intent">>]

\* the unsupported ask also forgets the intent
route_by_intent_ClearsIntent(st) ==
    IF st.awaiting_input /\ ~st.resumed
    THEN [ret |-> NoneVal, state |-> st]
    ELSE IF st.awaiting_input /\ st.resumed
    THEN [ret |-> "clarify", state |-> st]
    ELSE LET intent == LowerStrip(st.intent) IN
         IF intent = ""
         THEN [ret |-> NoneVal, state |-> AskForIntent(st, MsgGuidance)]
         ELSE IF intent = "nulls"
         THEN [ret |-> "null_count", state |-> st]
         ELSE IF intent = "distincts"
         THEN [ret |-> "distinct_count", state |-> st]
         ELSE [ret |-> NoneVal,
               state |-> [AskForIntent(st, MsgUnsupported(intent)) EXCEPT !.intent = Unset]]

\* the intent is looked at before awaiting_input
route_by_intent_IntentFirst(st) ==
    LET intent == LowerStrip(st.intent) IN
    IF intent = "nulls"
    THEN [ret |-> "null_count", state |-> st]
    ELSE IF intent = "distincts"
    THEN [ret |-> "distinct_count", state |-> st]
    ELSE IF st.awaiting_input /\ ~st.resumed
    THEN [ret |-> NoneVal, state |-> st]
    ELSE IF st.awaiting_input /\ st.resumed
    THEN [ret |-> "clarify", state |-> st]
    ELSE IF intent = ""
    THEN [ret |-> NoneVal, state |-> AskForIntent(st, MsgGuidance)]
    ELSE [ret |-> NoneVal, state |-> AskForIntent(st, MsgUnsupported(intent))]

\* an unmapped intent stops the turn without asking
route_by_intent_UnknownStops(st) ==
    IF st.awaiting_input /\ ~st.resumed
    THEN [ret |-> NoneVal, state |-> st]
    ELSE IF st.awaiting_input /\ st.resumed
    THEN [ret |-> "clarify", state |-> st]
    ELSE LET intent == LowerStrip(st.intent) IN
         IF intent = ""
         THEN [ret |-> NoneVal, state |-> AskForIntent(st, MsgGuidance)]
         ELSE IF intent = "nulls"
         THEN [ret |-> "null_count", state |-> st]
         ELSE IF intent = "distincts"
         THEN [ret |-> "distinct_count", state |-> st]
         ELSE [ret |-> NoneVal, state |-> st]

\* profiling_graph.py 19-54
route_by_intent(st) ==
    IF st.awaiting_input /\ ~st.resumed
    THEN [ret |-> NoneVal, state |-> st]
    ELSE IF st.awaiting_input /\ st.resumed
    THEN [ret |-> "clarify", state |-> st]
    ELSE LET intent == LowerStrip(st.intent) IN
         IF intent = ""
         THEN [ret |-> NoneVal, state |-> AskForIntent(st, MsgGuidance)]
         ELSE IF intent = "nulls"
         THEN [ret |-> "null_count", state |-> st]
         ELSE IF intent = "distincts"
         THEN [ret |-> "distinct_count", state |-> st]
         ELSE [ret |-> NoneVal, state |-> AskForIntent(st, MsgUnsupported(intent))]

\* ---------------------------------------------------- ClarificationNode
\* no intent requires a parameter
detect_missing_Nothing(st) == <<>>

\* clarification_node.py 70-83
detect_missing(st) ==
    IF st.intent \in {"nulls", "distincts"} /\ ~Truthy(st.context["table"])
    THEN <<"table">>
    ELSE <<>>

\* the last parameter filled, the answer not written back to the state
AllFilled_DropsAnswer(st, ctx, param_to_fill, user_input) ==
    [st EXCEPT !.missing_params = <<>>,
               !.awaiting_input = FALSE,
               !.resumed = FALSE,
               !.message = MsgGot(param_to_fill, user_input)]

\* the last parameter filled, neither awaiting_input nor resumed reset
AllFilled_NoReset(st, ctx, param_to_fill, user_input) ==
    [st EXCEPT !.context = ctx,
               !.missing_params = <<>>,
               !.message = MsgGot(param_to_fill, user_input)]

\* the last parameter filled, awaiting_input left raised
AllFilled_StillAwaiting(st, ctx, param_to_fill, user_input) ==
    [st EXCEPT !.context = ctx,
               !.missing_params = <<>>,
               !.resumed = FALSE,
               !.message = MsgGot(param_to_fill, user_input)]

\* clarification_node.py 32-38: the last missing parameter was filled
AllFilled(st, ctx, param_to_fill, user_input) ==
    [st EXCEPT !.context = ctx,
               !.missing_params = <<>>,
               !.awaiting_input = FALSE,
               !.resumed = FALSE,
               !.message = MsgGot(param_to_fill, user_input)]

\* a reply clears the whole list of missing parameters
ClarificationNode_run_ClearsAll(st) ==
    LET user_input == Strip(st.userText) IN
    IF st.awaiting_input /\ st.missing_params # <<>>
    THEN LET param_to_fill == Head(st.missing_params) IN
         IF user_input # ""
         THEN AllFilled(st, [st.context EXCEPT ![param_to_fill] = user_input],
                        param_to_fill, user_input)
         ELSE [st EXCEPT !.message = MsgAsk(param_to_fill),
                         !.awaiting_input = TRUE]
    ELSE LET missing == detect_missing(st) IN
         IF missing # <<>>
         THEN [st EXCEPT !.awaiting_input = TRUE,
                         !.missing_params = missing,
                         !.message = MsgAsk(Head(missing))]
         ELSE [st EXCEPT !.awaiting_input = FALSE,
                         !.missing_params = <<>>]

\* clarification_node.py 17-67
ClarificationNode_run(st) ==
    LET user_input == Strip(st.userText) IN
    IF st.awaiting_input /\ st.missing_params # <<>>
    THEN LET param_to_fill == Head(st.missing_params) IN
         IF user_input # ""
         THEN LET rest == Tail(st.missing_params)
                  ctx == [st.context EXCEPT ![param_to_fill] = user_input]
              IN  IF rest = <<>>
                  THEN AllFilled(st, ctx, param_to_fill, user_input)
                  ELSE [st EXCEPT !.context = ctx,
                                  !.missing_params = rest,
                                  !.awaiting_input = TRUE,
                                  !.resumed = FALSE,
                                  !.message = MsgThanks(param_to_fill, user_input, Head(rest))]
         ELSE [st EXCEPT !.message = MsgAsk(param_to_fill),
                         !.awaiting_input = TRUE]
    ELSE LET missing == detect_missing(st) IN
         IF missing # <<>>
         THEN [st EXCEPT !.awaiting_input = TRUE,
                         !.missing_params = missing,
                         !.message = MsgAsk(Head(missing))]
         ELSE [st EXCEPT !.awaiting_input = FALSE,
                         !.missing_params = <<>>]

\* ------------------------------------------------------------ handlers
\* `ctx = state.context or {}`: ctx is the state's own dict only when that
\* dict is non-empty, so item assignments to ctx reach the state only then.
CtxWrite(st, ctx) == IF DictTruthy(st.context) THEN [st EXCEPT !.context = ctx] ELSE st

\* a caught failure that also asks for the table again
SoftFailure_AsksAgain(st, msg) ==
    [st EXCEPT !.message = msg, !.awaiting_input = TRUE, !.missing_params = <<"table">>]

\* a caught failure that leaves a partial result in the payload
SoftFailure_PartialPayload(st, msg) ==
    [st EXCEPT !.message = msg, !.payload = "partial"]

\* a caught failure that forgets the intent
SoftFailure_DropsIntent(st, msg) ==
    [st EXCEPT !.message = msg, !.intent = Unset]

\* null_count_node.py 93-96, 103-106; distinct_count_node.py 101-104: a
\* failure the handler catches itself only sets the message
SoftFailure(st, msg) == [st EXCEPT !.message = msg]

\* a success that leaves the payload as it was
HandlerSuccess_NoPayload(st, ctx, name, next) ==
    [st EXCEPT !.context = ctx,
               !.message = MsgSummary(name),
               !.awaiting_input = FALSE,
               !.missing_params = <<>>,
               !.next_prompt = next]

\* null_count_node.py 164-171, distinct_count_node.py 146-153
HandlerSuccess(st, ctx, name, next) ==
    [st EXCEPT !.context = ctx,
               !.payload = name,
               !.message = MsgSummary(name),
               !.awaiting_input = FALSE,
               !.missing_params = <<>>,
               !.next_prompt = next]

HandlerResult(raised, kind, st) == [raised |-> raised, kind |-> kind, state |-> st]

NullCountNode_run(st, ext, h) ==
    LET ctx0 == st.context
        need == ~Truthy(ctx0["table"])
    IN  IF h = "raise" THEN HandlerResult(TRUE, "raise", st)
        ELSE IF need /\ ~Truthy(ext)
        THEN LET clarified == ClarificationNode_run([st EXCEPT !.intent = "nulls"])
             IN  HandlerResult(FALSE, "delegated", [clarified EXCEPT !.awaiting_input = TRUE])
        ELSE LET ctx == IF need
                        THEN [ctx0 EXCEPT !["table"] = ext, !["filters"] = NoneVal]
                        ELSE ctx0
                 st1 == CtxWrite(st, ctx)
             IN  IF h = "sqlfail"
                 THEN HandlerResult(FALSE, "soft", SoftFailure(st1, MsgSqlFail))
                 ELSE IF h = "execfail"
                 THEN HandlerResult(FALSE, "soft", SoftFailure(st1, MsgExecFail))
                 ELSE HandlerResult(FALSE, "ok",
                        HandlerSuccess(st1, ctx, "null_count", "distincts_next"))

DistinctCountNode_run(st, ext, h) ==
    LET ctx0 == st.context
        need == ~Truthy(ctx0["table"])
        maybe_table == IF ext \in ExistingTables THEN ext ELSE ""
    IN  IF h = "raise" THEN HandlerResult(TRUE, "raise", st)
        ELSE IF need /\ ~Truthy(maybe_table)
        THEN HandlerResult(FALSE, "delegated",
                ClarificationNode_run(CtxWrite(st, [ctx0 EXCEPT !["table"] = ""])))
        ELSE LET ctx == IF need
                        THEN [ctx0 EXCEPT !["table"] = maybe_table, !["filters"] = NoneVal]
                        ELSE ctx0
                 st1 == CtxWrite(st, ctx)
             IN  IF h = "sqlfail"
                 THEN HandlerResult(FALSE, "soft",
                        SoftFailure(CtxWrite(st1, [ctx EXCEPT !["table"] = ""]), MsgSqlFail))
                 ELSE IF h = "execfail"
                 THEN HandlerResult(FALSE, "soft", SoftFailure(st1, MsgExecFail))
                 ELSE HandlerResult(FALSE, "ok",
                        HandlerSuccess(st1, ctx, "distinct_count", "nulls_next"))

\* --------------------------------------------------------------- graph
HandlerNodes == {"null_count", "distinct_count"}

RunHandler(name, st, ext, h) ==
    IF name = "null_count" THEN NullCountNode_run(st, ext, h)
    ELSE DistinctCountNode_run(st, ext, h)

GraphResult(raised, st, decisions, nodes, entering, hkind) ==
    [ raised |-> raised, state |-> st, decisions |-> decisions, nodes |-> nodes,
      entering |-> entering, hkind |-> hkind ]

\* intent_detect -> route -> {handler, clarify, END}; clarify -> route ->
\* {handler, END}.  A decision with no outgoing edge makes invoke raise.
build_profiling_graph(st0, cls, ext, h) ==
    LET s1 == IntentDetectionNode_run(st0, cls)
        r1 == route_by_intent(s1)
    IN  IF r1.ret \in HandlerNodes
        THEN LET hr == RunHandler(r1.ret, r1.state, ext, h)
             IN  GraphResult(hr.raised, hr.state, <<r1.ret>>,
                             <<"intent_detect", r1.ret>>, r1.state, hr.kind)
        ELSE IF r1.ret = "clarify"
        THEN LET s2 == ClarificationNode_run(r1.state)
                 r2 == route_by_intent(s2)
             IN  IF r2.ret \in HandlerNodes
                 THEN LET hr == RunHandler(r2.ret, r2.state, ext, h)
                      IN  GraphResult(hr.raised, hr.state, <<r1.ret, r2.ret>>,
                                      <<"intent_detect", "clarify", r2.ret>>, r2.state, hr.kind)
                 ELSE IF r2.ret = "clarify"
                 THEN GraphResult(TRUE, r2.state, <<r1.ret, r2.ret>>,
                                  <<"intent_detect", "clarify">>, r2.state, "none")
                 ELSE GraphResult(FALSE, r2.state, <<r1.ret, r2.ret>>,
                                  <<"intent_detect", "clarify">>, r2.state, "none")
        ELSE GraphResult(FALSE, r1.state, <<r1.ret>>, <<"intent_detect">>, r1.state, "none")

\* ----------------------------------------------------------- run_agent
\* the stored context is merged and kept whether or not the session waits
MergeTurn_KeepsContext(prior, user_text, context_update) ==
    [prior EXCEPT !.userText_history = Append(@, user_text),
                  !.userText = user_text,
                  !.resumed = TRUE,
                  !.intent = IF prior.awaiting_input THEN @ ELSE Unset,
                  !.context = DictUpdate(prior.context, context_update)]

\* main.py 76-94: the state handed to the graph on an existing session
MergeTurn(prior, user_text, context_update) ==
    [prior EXCEPT !.userText_history = Append(@, user_text),
                  !.userText = user_text,
                  !.resumed = TRUE,
                  !.intent = IF prior.awaiting_input THEN @ ELSE Unset,
                  !.context = IF prior.awaiting_input
                              THEN DictUpdate(prior.context, context_update)
                              ELSE EmptyCtx]

\* main.py 87-88: ctx is the stored dict itself when it is non-empty, and
\* ctx.update writes into it
StoredAfterMerge(prior, context_update) ==
    IF DictTruthy(prior.context)
    THEN [prior EXCEPT !.context = DictUpdate(@, context_update)]
    ELSE prior

\* main.py 131-162 (200), 117/124 (500), models.empty_response
MakeResponse(status, st) ==
    [ status |-> status,
      message |-> IF st.message = MsgNone THEN MsgNoMessage ELSE st.message,
      payload |-> IF st.payload = NoPayload THEN "minimal" ELSE st.payload,
      next_prompt |-> st.next_prompt ]

empty_response == [status |-> 200, message |-> MsgEnter, payload |-> "minimal",
                   next_prompt |-> NoPayload]

ErrorResponse == [status |-> 500, message |-> <<"graph_execution_error">>,
                  payload |-> NoPayload, next_prompt |-> NoPayload]

\* the store is rebound to a dict holding only this session
Put_Rebind(store, sid, st) == [s \in {sid} |-> st]

\* main.py 128: SESSIONS[session_id] = result_data
Put(store, sid, st) ==
    [s \in DOMAIN store \cup {sid} |-> IF s = sid THEN st ELSE store[s]]

SessionOf(raw_sid) == IF raw_sid = "" THEN DefaultSession ELSE raw_sid

\* no early return on empty text
IsEmptyTurn_Never(user_text) == FALSE

\* main.py 69: `if not user_text`
IsEmptyTurn(user_text) == user_text = ""

\* what one call of run_agent does to the store and returns
TurnOutcome(store, raw_sid, raw_text, context_update, cls, ext, h) ==
    LET session_id == SessionOf(raw_sid)
        user_text == Strip(raw_text)
        existed == session_id \in DOMAIN store
        prior == IF existed THEN store[session_id] ELSE NoState
    IN  IF IsEmptyTurn(user_text)
        THEN [ store |-> store,
               obs |-> [ kind |-> "empty", sid |-> session_id, text |-> user_text,
                         cls |-> cls, ext |-> ext, cu |-> context_update, existed |-> existed, prior |-> prior,
                         merged |-> prior, final |-> prior, decisions |-> <<>>,
                         nodes |-> <<>>, entering |-> prior, hkind |-> "none",
                         response |-> empty_response ] ]
        ELSE LET merged == IF existed
                           THEN MergeTurn(prior, user_text, context_update)
                           ELSE FreshState(session_id, user_text, context_update)
                 store1 == IF existed
                           THEN Put(store, session_id, StoredAfterMerge(prior, context_update))
                           ELSE store
                 g == build_profiling_graph(merged, cls, ext, h)
             IN  IF g.raised
                 THEN [ store |-> store1,
                        obs |-> [ kind |-> "abort", sid |-> session_id, text |-> user_text,
                                  cls |-> cls, ext |-> ext, cu |-> context_update, existed |-> existed, prior |-> prior,
                                  merged |-> merged, final |-> g.state,
                                  decisions |-> g.decisions, nodes |-> g.nodes,
                                  entering |-> g.entering, hkind |-> g.hkind,
                                  response |-> ErrorResponse ] ]
                 ELSE [ store |-> Put(store1, session_id, g.state),
                        obs |-> [ kind |-> "done", sid |-> session_id, text |-> user_text,
                                  cls |-> cls, ext |-> ext, cu |-> context_update, existed |-> existed, prior |-> prior,
                                  merged |-> merged, final |-> g.state,
                                  decisions |-> g.decisions, nodes |-> g.nodes,
                                  entering |-> g.entering, hkind |-> g.hkind,
                                  response |-> MakeResponse(200, g.state) ] ]

NoObs == [ kind |-> "init", sid |-> DefaultSession, text |-> "", cls |-> Unset,
           ext |-> NoneVal, cu |-> EmptyCtx,
           existed |-> FALSE, prior |-> NoState, merged |-> NoState, final |-> NoState,
           decisions |-> <<>>, nodes |-> <<>>, entering |-> NoState, hkind |-> "none",
           response |-> empty_response ]

AskedAfter(asked, obs) ==
    IF AskedParam(obs.response.message) # NoPayload
    THEN [asked EXCEPT ![obs.sid] = AskedParam(obs.response.message)]
    ELSE asked

\* SESSIONS = {} at import (main.py 27)
EmptyStore == [s \in {} |-> NoState]

\* ------------------------------------------------- requests in flight
\* run_agent is a coroutine: it yields to the event loop at
\* `await request.json()` (main.py 61) and nowhere after it, so lines 65-128
\* of one request run without another request's lines in between.
Slots == {1, 2}
AsyncRawSessionIds == {"", "s1"}
AsyncRawTexts == {"  ", "emp"}
Critical == {"loaded", "invoked"}

NoGraph == GraphResult(FALSE, NoState, <<>>, <<>>, NoState, "none")

IdleSlot == [ pc |-> "idle", raw_sid |-> "", raw_text |-> "", cu |-> EmptyCtx,
              existed |-> FALSE, prior |-> NoState, seen |-> EmptyStore,
              merged |-> NoState, g |-> NoGraph ]

\* another coroutine may start its synchronous part
LoopFree_Always(r) == TRUE

\* the event loop runs one coroutine at a time: a request enters lines
\* 65-128 only when no other request is inside them
LoopFree(r) == \A r2 \in Slots \ {r} : reqs[r2].pc \notin Critical

\* no routing decision taken
NoRoute == [ret |-> "<pending>", state |-> NoState]

Init ==
    /\ SESSIONS = EmptyStore
    /\ turns = 0
    /\ last = NoObs
    /\ lastAsked = [s \in SessionIds |-> NoPayload]
    /\ reqs = [r \in Slots |-> IdleSlot]
    /\ routeIn = NoState
    /\ routeOut = NoRoute

run_agent(raw_sid, raw_text, context_update, cls, ext, h) ==
    /\ turns < MaxTurns
    /\ LET out == TurnOutcome(SESSIONS, raw_sid, raw_text, context_update, cls, ext, h)
       IN  /\ SESSIONS' = out.store
           /\ last' = out.obs
           /\ lastAsked' = AskedAfter(lastAsked, out.obs)
    /\ turns' = turns + 1
    /\ UNCHANGED <<reqs, routerVars>>

\* The external outcomes that can matter when the graph runs on a merged
\* state: the classifier is consulted only when the state has no intent, the
\* handler outcome matters only when a handler is dispatched, the table
\* extraction only when that handler finds no table in the context.
GraphEnv(merged) ==
    UNION {
        LET probe == build_profiling_graph(merged, cls, NoneVal, "ok")
        IN  IF probe.hkind = "none" THEN {<<cls, NoneVal, "ok">>}
            ELSE IF probe.hkind = "delegated"
            THEN {<<cls, ext, h>> : ext \in ExtractOutcomes, h \in HandlerOutcomes}
            ELSE {<<cls, NoneVal, h>> : h \in HandlerOutcomes}
        : cls \in IF Truthy(merged.intent) THEN {Unset} ELSE ClassifierOutcomes }

\* the same for a whole turn; an empty turn consults nothing
EnvChoices(store, raw_sid, raw_text, context_update) ==
    LET session_id == SessionOf(raw_sid)
        user_text == Strip(raw_text)
    IN  IF IsEmptyTurn(user_text) THEN {<<Unset, NoneVal, "ok">>}
        ELSE GraphEnv(IF session_id \in DOMAIN store
                      THEN MergeTurn(store[session_id], user_text, context_update)
                      ELSE FreshState(session_id, user_text, context_update))

Next ==
    /\ turns < MaxTurns
    /\ \E raw_sid \in RawSessionIds, raw_text \in RawTexts, context_update \in CallerContexts :
          \E env \in EnvChoices(SESSIONS, raw_sid, raw_text, context_update) :
              run_agent(raw_sid, raw_text, context_update, env[1], env[2], env[3])

Spec == Init /\ [][Next]_vars

\* ------------------------------------------- run_agent, step by step
\* main.py 60-63: the body has been read
Receive(r, raw_sid, raw_text, context_update) ==
    /\ turns < MaxAsyncTurns
    /\ reqs[r].pc = "idle"
    /\ reqs' = [reqs EXCEPT ![r] = [IdleSlot EXCEPT !.pc = "parsed",
                                                    !.raw_sid = raw_sid,
                                                    !.raw_text = raw_text,
                                                    !.cu = context_update]]
    /\ turns' = turns + 1
    /\ UNCHANGED <<SESSIONS, last, lastAsked, routerVars>>

\* main.py 65-109: early return on empty text, else load and merge
Load(r) ==
    LET q == reqs[r]
        session_id == SessionOf(q.raw_sid)
        user_text == Strip(q.raw_text)
        existed == session_id \in DOMAIN SESSIONS
        prior == IF existed THEN SESSIONS[session_id] ELSE NoState
        store1 == IF existed
                  THEN Put(SESSIONS, session_id, StoredAfterMerge(prior, q.cu))
                  ELSE SESSIONS
        merged == IF existed
                  THEN MergeTurn(prior, user_text, q.cu)
                  ELSE FreshState(session_id, user_text, q.cu)
    IN  /\ q.pc = "parsed"
        /\ LoopFree(r)
        /\ IF IsEmptyTurn(user_text)
           THEN /\ reqs' = [reqs EXCEPT ![r] = IdleSlot]
                /\ UNCHANGED SESSIONS
           ELSE /\ SESSIONS' = store1
                /\ reqs' = [reqs EXCEPT ![r] = [q EXCEPT !.pc = "loaded",
                                                         !.existed = existed,
                                                         !.prior = prior,
                                                         !.seen = store1,
                                                         !.merged = merged]]
        /\ UNCHANGED <<turns, last, lastAsked, routerVars>>

\* main.py 111-124: the graph runs; an exception ends the request with 500
Invoke(r, cls, ext, h) ==
    LET q == reqs[r]
        g == build_profiling_graph(q.merged, cls, ext, h)
    IN  /\ q.pc = "loaded"
        /\ IF g.raised
           THEN reqs' = [reqs EXCEPT ![r] = IdleSlot]
           ELSE reqs' = [reqs EXCEPT ![r] = [q EXCEPT !.pc = "invoked", !.g = g]]
        /\ UNCHANGED <<SESSIONS, turns, last, lastAsked, routerVars>>

\* main.py 126-164: persist and respond
Persist(r) ==
    LET q == reqs[r]
    IN  /\ q.pc = "invoked"
        /\ SESSIONS' = Put(SESSIONS, SessionOf(q.raw_sid), q.g.state)
        /\ reqs' = [reqs EXCEPT ![r] = IdleSlot]
        /\ UNCHANGED <<turns, last, lastAsked, routerVars>>

NextAsync ==
    \/ \E r \in Slots, raw_sid \in AsyncRawSessionIds, raw_text \in AsyncRawTexts,
          context_update \in CallerContexts :
            Receive(r, raw_sid, raw_text, context_update)
    \/ \E r \in Slots : Load(r)
    \/ \E r \in Slots : \E env \in GraphEnv(reqs[r].merged) :
            Invoke(r, env[1], env[2], env[3])
    \/ \E r \in Slots : Persist(r)

SpecAsync == Init /\ [][NextAsync]_vars

\* ------------------------------------------- the router on every state
\* route_by_intent is a function of awaiting_input, resumed and intent; it
\* is applied here to every combination of them, with the intent strings a
\* stored state or the classifier's JSON can carry.
RouteIntents == {Unset, "", "  ", "nulls", " Nulls ", "distincts", "Distincts",
                 "schema", "None"}
RouteMissing == {<<>>, <<"intent">>, <<"table">>}
RouterStates ==
    { [FreshState(DefaultSession, "emp", EmptyCtx)
          EXCEPT !.awaiting_input = a, !.resumed = r, !.intent = i,
                 !.missing_params = m, !.message = MsgAsk("table")]
      : a \in BOOLEAN, r \in BOOLEAN, i \in RouteIntents, m \in RouteMissing }

InitRoute ==
    /\ SESSIONS = EmptyStore
    /\ turns = 0
    /\ last = NoObs
    /\ lastAsked = [s \in SessionIds |-> NoPayload]
    /\ reqs = [r \in Slots |-> IdleSlot]
    /\ routeIn \in RouterStates
    /\ routeOut = NoRoute

Route ==
    /\ routeOut = NoRoute
    /\ routeOut' = route_by_intent(routeIn)
    /\ UNCHANGED <<SESSIONS, turns, last, lastAsked, reqs, routeIn>>

NextRoute == Route

SpecRoute == InitRoute /\ [][NextRoute]_vars

\* ---------------------------------- the clarify node on every state
\* ClarificationNode.run followed by the routing the graph does after the
\* clarify node, applied to states with up to two recorded missing
\* parameters; routeOut keeps the state the clarifier left and the decision
\* the router then took.
ClarifyMissing == {<<>>, <<"table">>, <<"intent">>, <<"table", "filters">>,
                   <<"intent", "table">>}
ClarifyIntents == {Unset, "nulls", "distincts", "Distincts", "schema"}
ClarifyContexts == {EmptyCtx, [EmptyCtx EXCEPT !["table"] = "acct"],
                    [EmptyCtx EXCEPT !["filters"] = "f"]}
ClarifyStates ==
    { [FreshState(DefaultSession, t, c)
          EXCEPT !.awaiting_input = (m # <<>>), !.resumed = (m # <<>>), !.intent = i,
                 !.missing_params = m, !.message = MsgGuidance]
      : t \in {"", "emp", " dept "}, c \in ClarifyContexts, i \in ClarifyIntents,
        m \in ClarifyMissing }

InitClarify ==
    /\ SESSIONS = EmptyStore
    /\ turns = 0
    /\ last = NoObs
    /\ lastAsked = [s \in SessionIds |-> NoPayload]
    /\ reqs = [r \in Slots |-> IdleSlot]
    /\ routeIn \in ClarifyStates
    /\ routeOut = NoRoute

Clarify ==
    /\ routeOut = NoRoute
    /\ LET clarified == ClarificationNode_run(routeIn)
       IN  routeOut' = [ret |-> route_by_intent(clarified).ret, state |-> clarified]
    /\ UNCHANGED <<SESSIONS, turns, last, lastAsked, reqs, routeIn>>

NextClarify == Clarify

SpecClarify == InitClarify /\ [][NextClarify]_vars

\* ---------------------------------------------------------- properties
Stored(sid) == SESSIONS[sid]
HasSession(sid) == sid \in DOMAIN SESSIONS
TurnTaken == last.kind # "init"
EmptyTextTurn == TurnTaken /\ last.text = ""
LastDecision == IF last.decisions = <<>> THEN "none" ELSE last.decisions[Len(last.decisions)]

\* C1 (as claimed): after any run_agent turn, if the session's state has
\* awaiting_input = true then missing_params is non-empty and the message
\* returned for the turn asks about missing_params[0].
C1_SingleQuestion ==
    (TurnTaken /\ HasSession(last.sid) /\ Stored(last.sid).awaiting_input)
        => /\ Stored(last.sid).missing_params # <<>>
           /\ AsksAbout(last.response.message, Head(Stored(last.sid).missing_params))

\* C2: in every persisted session state, missing_params is non-empty only
\* when awaiting_input is true, and its first element is the parameter named
\* in the most recent question returned for the session.
C2_MissingOnlyWhenAwaiting ==
    \A s \in DOMAIN SESSIONS :
        Stored(s).missing_params # <<>>
            => /\ Stored(s).awaiting_input
               /\ Head(Stored(s).missing_params) = lastAsked[s]

C2_Witness ==
    /\ HasSession(DefaultSession)
    /\ Stored(DefaultSession).missing_params = <<"table">>
    /\ lastAsked[DefaultSession] = "table"
    /\ last.kind = "done" /\ last.hkind = "delegated"

\* C4: an empty or whitespace-only turn on a session that awaits input
\* leaves the stored missing_params and context (the whole stored state)
\* unchanged.
C4_NoProgressOnEmptyInput ==
    (EmptyTextTurn /\ last.existed /\ last.prior.awaiting_input)
        => /\ Stored(last.sid).missing_params = last.prior.missing_params
           /\ Stored(last.sid).context = last.prior.context
           /\ Stored(last.sid) = last.prior

C4_Witness ==
    /\ EmptyTextTurn /\ last.existed /\ last.prior.awaiting_input
    /\ last.prior.missing_params = <<"table">>
    /\ DictTruthy(last.cu)

\* the handler node the router maps an intent to
HandlerFor(intent) ==
    IF LowerStrip(intent) = "nulls" THEN "null_count"
    ELSE IF LowerStrip(intent) = "distincts" THEN "distinct_count"
    ELSE "none"

AnsweredTurn == last.kind \in {"done", "abort"} /\ last.existed /\ last.prior.awaiting_input

C5_IdempotentResumption ==
    last.kind = "done" => route_by_intent(Stored(last.sid)).ret = LastDecision

\* C5 (amended): route_by_intent on the persisted state returns the last
\* routing decision of the turn unless the handler delegated to the
\* clarifier or the state was persisted with awaiting_input and resumed
\* both true; in those two cases with awaiting_input true it returns stop or
\* clarify.
C5_ResumptionUnlessAsked ==
    last.kind = "done" =>
        LET st == Stored(last.sid)
            asked == last.hkind = "delegated" \/ (st.awaiting_input /\ st.resumed)
        IN  /\ ~asked => route_by_intent(st).ret = LastDecision
            /\ (asked /\ st.awaiting_input)
                  => route_by_intent(st).ret = (IF st.resumed THEN "clarify" ELSE NoneVal)

C5_Witness ==
    /\ last.kind = "done" /\ last.existed
    /\ last.hkind = "soft"
    /\ last.decisions = <<"clarify", "null_count">>

\* C6 (as claimed): on a turn for an existing session, a key set by both the
\* stored context and the caller's context holds the caller's value in the
\* context handed to the graph and in the context persisted afterwards.
C6_CallerPriority ==
    (last.kind = "done" /\ last.existed) =>
        \A k \in Keys :
            (last.cu[k] # Absent /\ last.prior.context[k] # Absent)
                => /\ last.merged.context[k] = last.cu[k]
                   /\ Stored(last.sid).context[k] = last.cu[k]

\* C8 (as claimed): an aborted turn leaves the stored session state,
\* context included, exactly as it was before the turn.
C8_AllOrNothing ==
    last.kind = "abort" =>
        /\ HasSession(last.sid) <=> last.existed
        /\ last.existed => Stored(last.sid) = last.prior

FailureMessages == {MsgSqlFail, MsgExecFail}

\* C9 (as claimed): a failure of the dispatched handler is returned as a
\* normal response: status 200, a message describing the failure and a
\* payload without result fields.
C9_HandlerFailureIsNormalResponse ==
    last.hkind \in {"raise", "soft"} =>
        /\ last.response.status = 200
        /\ last.response.message \in FailureMessages
        /\ last.response.payload = "minimal"

\* C9 (amended): an exception that leaves the handler aborts the turn with
\* status 500 and nothing is persisted; a failure the handler catches itself
\* is returned with status 200 and the failure message, payload and
\* next_prompt being those the state carried when the handler was entered.
C9_HandlerFailureReporting ==
    /\ last.hkind = "raise" =>
          /\ last.kind = "abort"
          /\ last.response.status = 500
          /\ HasSession(last.sid) <=> last.existed
          /\ last.existed => Stored(last.sid) = StoredAfterMerge(last.prior, last.cu)
    /\ last.hkind = "soft" =>
          /\ last.kind = "done"
          /\ last.response.status = 200
          /\ last.response.message \in FailureMessages
          /\ last.response.payload = MakeResponse(200, last.entering).payload
          /\ last.response.next_prompt = last.entering.next_prompt

C9_Witness ==
    /\ last.hkind = "raise" /\ last.existed
    /\ last.decisions = <<"clarify", "null_count">>
    /\ last.response.status = 500

C7_NoInterleaving ==
    \A r \in Slots :
        reqs[r].pc \in Critical
            => /\ \A r2 \in Slots \ {r} : reqs[r2].pc \notin Critical
               /\ SESSIONS = reqs[r].seen

\* two requests for one session are in flight, one of them past its load
C7_Witness ==
    /\ reqs[1].pc = "invoked" /\ reqs[2].pc = "parsed"
    /\ reqs[1].raw_sid = reqs[2].raw_sid
    /\ reqs[1].existed /\ reqs[1].prior.awaiting_input
    /\ DictTruthy(reqs[2].cu)

\* the classifier was called in the last turn and raised
ClassifierRaised == last.kind \in {"done", "abort"} /\ last.cls = "raise"

\* C11 (as claimed): when the classifier call raises, the turn is not fatal,
\* the intent stays unset and routing takes the no-intent guidance path
\* (guidance message, awaiting_input = true, missing_params = [intent], stop),
\* not the unsupported-intent path.
C11_ClassifierFailureIsNoIntent ==
    ClassifierRaised =>
        /\ last.kind = "done"
        /\ last.final.intent = Unset
        /\ last.response.message = MsgGuidance
        /\ last.final.awaiting_input
        /\ last.final.missing_params = <<"intent">>
        /\ last.decisions = <<NoneVal>>

\* C13 (as claimed): a first turn on a fresh session with empty user text
\* ends with intent unset, the generic guidance text as message, and a
\* persisted state with awaiting_input = true and missing_params = [intent].
C13_FreshEmptyTurn ==
    (EmptyTextTurn /\ ~last.existed)
        => /\ last.response.message = MsgGuidance
           /\ HasSession(last.sid)
           /\ Stored(last.sid).intent = Unset
           /\ Stored(last.sid).awaiting_input
           /\ Stored(last.sid).missing_params = <<"intent">>

\* C14 (as claimed): on an empty or whitespace turn while the session awaits
\* parameter p, the message returned re-asks for p verbatim: it is the
\* question emitted when p was last asked about (the message of the stored
\* state, which the asking turn persisted).
C14_ReaskVerbatim ==
    (EmptyTextTurn /\ last.existed /\ last.prior.awaiting_input)
        => /\ last.response.message = last.prior.message
           /\ AsksAbout(last.response.message, Head(last.prior.missing_params))

\* a fresh session's turn whose intent resolves to nulls, with no table in
\* the caller's context and none extracted from the text, and no exception
FreshNullsNoTable ==
    /\ last.kind = "done" /\ ~last.existed
    /\ last.cls = "nulls"
    /\ ~Truthy(last.cu["table"])
    /\ last.ext = NoneVal

\* C15: such a turn ends with awaiting_input = true, missing_params =
\* [table], a message asking for the table, and no handler result.
C15_FreshNullsAsksTable ==
    FreshNullsNoTable
        => /\ Stored(last.sid).awaiting_input
           /\ Stored(last.sid).missing_params = <<"table">>
           /\ last.response.message = MsgAsk("table")
           /\ Stored(last.sid).payload = NoPayload
           /\ last.response.payload = "minimal"
           /\ last.hkind = "delegated"

C15_Witness ==
    /\ FreshNullsNoTable
    /\ last.decisions = <<"null_count">>
    /\ Stored(last.sid).intent = "nulls"
    /\ lastAsked[last.sid] = "table"

\* a non-empty reply on a session whose missing_params has one entry left
FillsLast == AnsweredTurn /\ Len(last.prior.missing_params) = 1

\* C16 (as claimed): when a turn's non-empty reply fills the last entry p of
\* missing_params, the handler for the current intent is dispatched in that
\* same turn: after the turn context[p] is the reply, awaiting_input is
\* false and the payload is the handler's result.
C16_SameTurnDispatch ==
    FillsLast
        => /\ last.kind = "done"
           /\ LastDecision \in HandlerNodes
           /\ Stored(last.sid).context[Head(last.prior.missing_params)] = last.text
           /\ ~Stored(last.sid).awaiting_input
           /\ Stored(last.sid).payload = LastDecision

\* C16 (amended): the reply is written to context[p] and the turn is routed
\* again; a handler dispatched by that second routing is entered with
\* awaiting_input false.  When p is the table, the
\* handler of the stored intent is dispatched in that same turn and is
\* entered with context[table] = the reply; when it succeeds the turn ends
\* with context[table] = the reply, awaiting_input false and the handler's
\* result as payload (a handler failure is reported as in C9).  When p is
\* the intent, a handler is dispatched exactly when the intent held by the
\* state after detection maps to one.
C16_ReplyThenDispatch ==
    FillsLast =>
        LET p == Head(last.prior.missing_params) IN
        /\ last.decisions[1] = "clarify" /\ Len(last.decisions) = 2
        /\ last.entering.context[p] = last.text
        /\ LastDecision \in HandlerNodes => ~last.entering.awaiting_input
        /\ p = "table" =>
              /\ LastDecision = HandlerFor(last.prior.intent)
              /\ LastDecision \in HandlerNodes
              /\ last.hkind \in {"ok", "soft", "raise"}
              /\ last.hkind = "ok" =>
                    /\ last.kind = "done"
                    /\ Stored(last.sid).context["table"] = last.text
                    /\ ~Stored(last.sid).awaiting_input
                    /\ Stored(last.sid).payload = LastDecision
                    /\ last.response.payload = LastDecision
        /\ p = "intent" =>
              (LastDecision \in HandlerNodes <=> HandlerFor(last.entering.intent) # "none")

C16_Witness ==
    /\ FillsLast /\ last.prior.missing_params = <<"table">>
    /\ last.decisions = <<"clarify", "distinct_count">>
    /\ last.hkind = "ok"
    /\ Stored(last.sid).payload = "distinct_count"
    /\ Stored(last.sid).context["table"] = last.text

\* the states the router was evaluated on in the last turn: the one intent
\* detection left and, after a clarify decision, the one the clarifier left
Routed1 == IntentDetectionNode_run(last.merged, last.cls)
Routed2 == ClarificationNode_run(Routed1)
RouterRan == last.kind \in {"done", "abort"}
RouterRanTwice == RouterRan /\ Len(last.decisions) = 2

\* intent set, not mapped to a handler, awaiting_input false
UnknownIntentAt(st) ==
    /\ ~st.awaiting_input
    /\ LowerStrip(st.intent) \notin {"", "nulls", "distincts"}

RoutedUnknownIntent ==
    \/ RouterRan /\ UnknownIntentAt(Routed1)
    \/ RouterRanTwice /\ UnknownIntentAt(Routed2)

\* C17: when a state whose intent is set but unmapped is routed with
\* awaiting_input false, no exception is raised and no handler runs, the
\* message says the intent is not supported, and the turn ends with
\* awaiting_input = true and missing_params = [intent].
C17_UnknownIntentAsksAgain ==
    RoutedUnknownIntent
        => /\ last.kind = "done"
           /\ last.response.status = 200
           /\ last.hkind = "none"
           /\ \A i \in 1..Len(last.nodes) : last.nodes[i] \notin HandlerNodes
           /\ LastDecision = NoneVal
           /\ last.response.message = MsgUnsupported(LowerStrip(Stored(last.sid).intent))
           /\ Stored(last.sid).awaiting_input
           /\ Stored(last.sid).missing_params = <<"intent">>

C17_Witness ==
    /\ RouterRanTwice /\ UnknownIntentAt(Routed2)
    /\ last.existed
    /\ Stored(last.sid).intent = "schema"
    /\ last.response.message = MsgUnsupported("schema")

\* how often a node of the given set ran in the last turn
NodeRuns(names) == Cardinality({i \in 1..Len(last.nodes) : last.nodes[i] \in names})

\* the state the last routing decision of the turn was taken on
FinalRouted == IF RouterRanTwice THEN Routed2 ELSE Routed1

\* who emitted a question in the last turn: the clarify node (it left
\* awaiting_input raised), the router (it changed the state it routed), a
\* handler through its delegation to the clarifier
ClarifyAsked == RouterRanTwice /\ Routed2.awaiting_input
RouterAsked == RouterRan /\ last.entering # FinalRouted
HandlerAsked == RouterRan /\ last.hkind = "delegated" /\ last.final.awaiting_input
QuestionsAsked ==
    (IF ClarifyAsked THEN 1 ELSE 0) + (IF RouterAsked THEN 1 ELSE 0)
        + (IF HandlerAsked THEN 1 ELSE 0)

\* C18: in every turn the router is evaluated at most twice, the clarify
\* node and a handler node each run at most once, at most one clarifying
\* question is emitted, and the traversal ends: at the end of the graph, or
\* with the exception of a handler, never at a routing decision that has no
\* edge.  A state routed with an unset or unknown intent ends the turn at
\* that routing.
C18_BoundedRouting ==
    RouterRan
        => /\ Len(last.decisions) \in {1, 2}
           /\ Len(last.decisions) = 2 => last.decisions[1] = "clarify"
           /\ LastDecision \in HandlerNodes \cup {NoneVal}
           /\ NodeRuns({"clarify"}) <= 1
           /\ NodeRuns(HandlerNodes) <= 1
           /\ NodeRuns({"clarify"}) = Len(last.decisions) - 1
           /\ QuestionsAsked <= 1
           /\ last.kind = "abort" => last.hkind = "raise"
           /\ RouterAsked => /\ LastDecision = NoneVal
                              /\ NodeRuns(HandlerNodes) = 0
                              /\ last.final = last.entering
           /\ (~Routed1.awaiting_input /\ HandlerFor(Routed1.intent) = "none")
                 => Len(last.decisions) = 1

\* a turn that is routed twice and ends with the router's own question
C18_Witness ==
    /\ RouterRanTwice /\ RouterAsked
    /\ NodeRuns({"clarify"}) = 1
    /\ QuestionsAsked = 1
    /\ last.response.message = MsgGuidance

\* C19 (as claimed): evaluating the router leaves every field of the state
\* unchanged.
C19_RouterOnlyReads ==
    RouterRan => last.entering = FinalRouted

\* st2 is st with at most message, awaiting_input and missing_params changed
SameButAsk(st, st2) ==
    st2 = [st EXCEPT !.message = st2.message,
                     !.awaiting_input = st2.awaiting_input,
                     !.missing_params = st2.missing_params]

\* C19 (amended): the router leaves the state unchanged when it decides
\* clarify or a handler or stops because the session awaits input; when it
\* stops on an unset or unmapped intent it writes message, awaiting_input
\* (true) and missing_params ([intent]) and nothing else: intent, context
\* and every other field are as it found them.
C19_RouterWritesOnlyItsAsk ==
    RouterRan
        => /\ RouterRanTwice => route_by_intent(Routed1).state = Routed1
           /\ (LastDecision # NoneVal \/ FinalRouted.awaiting_input)
                 => last.entering = FinalRouted
           /\ (LastDecision = NoneVal /\ ~FinalRouted.awaiting_input)
                 => /\ SameButAsk(FinalRouted, last.entering)
                    /\ last.entering.awaiting_input
                    /\ last.entering.missing_params = <<"intent">>
                    /\ last.entering.message
                          \in {MsgGuidance, MsgUnsupported(LowerStrip(FinalRouted.intent))}

C19_Witness ==
    /\ RouterRan /\ RouterAsked
    /\ last.decisions = <<NoneVal>>
    /\ FinalRouted.intent = "schema"
    /\ last.entering.intent = "schema"
    /\ last.entering.message = MsgUnsupported("schema")

\* the session a request in slot r names, before and after a step
NamedSession(q) == IF q.raw_sid = "" THEN DefaultSession ELSE q.raw_sid
Untouched(s) ==
    /\ s \in DOMAIN SESSIONS <=> s \in DOMAIN SESSIONS'
    /\ s \in DOMAIN SESSIONS => SESSIONS'[s] = SESSIONS[s]

\* C20: a step of a request for session A, in any interleaving with
\* requests for another session B, leaves what is stored for B as it was
\* (record and presence), and what the request loads is determined by what
\* is stored for A alone; so B's turns see the store B's own turns left.
C20_SessionsIndependent ==
    [][\A r \in Slots :
          reqs'[r] # reqs[r] =>
              LET q == IF reqs[r].pc = "idle" THEN reqs'[r] ELSE reqs[r]
                  A == NamedSession(q)
              IN  /\ \A B \in SessionIds \ {A} : Untouched(B)
                  /\ (reqs[r].pc = "parsed" /\ reqs'[r].pc = "loaded") =>
                        /\ reqs'[r].existed = (A \in DOMAIN SESSIONS)
                        /\ reqs'[r].existed => reqs'[r].prior = SESSIONS[A]
                        /\ ~reqs'[r].existed
                              => reqs'[r].merged = FreshState(A, Strip(q.raw_text), q.cu)
                  /\ (reqs[r].pc = "invoked") => SESSIONS'[A] = reqs[r].g.state
      ]_vars

\* a request for s1 is about to persist while the default session, stored
\* and awaiting input, has a request of its own in flight
C20_Witness ==
    /\ HasSession(DefaultSession) /\ Stored(DefaultSession).awaiting_input
    /\ reqs[1].pc = "invoked" /\ reqs[1].raw_sid = "s1"
    /\ reqs[2].pc = "parsed" /\ reqs[2].raw_sid = ""

\* C21 (as claimed): the state a turn loads for session X is the state
\* persisted by the most recent completed, non-aborted turn for X, or absent
\* if there was none.  Step by step: a turn loads what the store holds for
\* X, a completed turn stores its final state for X, and a turn that does
\* not complete (aborted, or returned early) leaves the store as it was.
C21_ReadYourWrites ==
    [][LET X == last'.sid IN
       /\ last'.existed = (X \in DOMAIN SESSIONS)
       /\ last'.existed => last'.prior = SESSIONS[X]
       /\ last'.kind = "done" =>
             /\ DOMAIN SESSIONS' = DOMAIN SESSIONS \cup {X}
             /\ SESSIONS'[X] = last'.final
       /\ last'.kind # "done" => SESSIONS' = SESSIONS
      ]_vars

\* the dispatched handler of the last turn completed successfully
HandlerSucceeded == RouterRan /\ last.hkind = "ok"

\* C22: whenever a dispatched handler completes successfully, the resulting
\* state has payload (the handler's own result) and message (its summary)
\* set, awaiting_input = false and missing_params = [].
C22_HandlerSuccessPostcondition ==
    HandlerSucceeded
        => /\ last.kind = "done"
           /\ LastDecision \in HandlerNodes
           /\ last.final.payload = LastDecision
           /\ last.final.message = MsgSummary(LastDecision)
           /\ ~last.final.awaiting_input
           /\ last.final.missing_params = <<>>
           /\ Stored(last.sid) = last.final
           /\ last.response.payload = LastDecision
           /\ last.response.message = MsgSummary(LastDecision)

C22_Witness ==
    /\ HandlerSucceeded
    /\ last.decisions = <<"null_count">>
    /\ last.existed /\ last.prior.payload = "distinct_count"
    /\ Stored(last.sid).payload = "null_count"

\* the router has been applied to routeIn
Routed == routeOut # NoRoute
BlankIntent(i) == i \in {Unset, "", "  "}
MappedHandler(i) ==
    IF i \in {"nulls", " Nulls "} THEN "null_count"
    ELSE IF i \in {"distincts", "Distincts"} THEN "distinct_count"
    ELSE "none"

\* C23: route_by_intent returns stop when awaiting_input is true and resumed
\* is false; clarify when both are true; stop after the guidance ask when
\* awaiting_input is false and intent is unset or blank; the handler name
\* when awaiting_input is false and intent is a mapped intent; and stop
\* after the unsupported ask otherwise.
C23_RouterDecisionOrder ==
    Routed =>
        LET st == routeIn
            out == routeOut.state
        IN  IF st.awaiting_input /\ ~st.resumed
            THEN routeOut.ret = NoneVal /\ out = st
            ELSE IF st.awaiting_input /\ st.resumed
            THEN routeOut.ret = "clarify" /\ out = st
            ELSE IF BlankIntent(st.intent)
            THEN /\ routeOut.ret = NoneVal
                 /\ out.message = MsgGuidance
                 /\ out.awaiting_input /\ out.missing_params = <<"intent">>
            ELSE IF MappedHandler(st.intent) # "none"
            THEN routeOut.ret = MappedHandler(st.intent) /\ out = st
            ELSE /\ routeOut.ret = NoneVal
                 /\ out.message[1] = "unsupported"
                 /\ out.awaiting_input /\ out.missing_params = <<"intent">>

\* the router was applied to a state that awaits input on a resumed turn
\* and carries a mapped intent
C23_Witness ==
    /\ Routed
    /\ routeIn.awaiting_input /\ routeIn.resumed
    /\ routeIn.intent = "nulls"
    /\ routeOut.ret = "clarify"

\* C24 (as claimed): the state handed to the graph has resumed = true if and
\* only if a prior state existed for the session and it had awaiting_input
\* = true; on a turn for an existing session that was not awaiting input,
\* resumed is false.
C24_ResumedIffAwaiting ==
    RouterRan => (last.merged.resumed <=> (last.existed /\ last.prior.awaiting_input))

\* h1 is a prefix of h2
IsPrefix(h1, h2) ==
    /\ Len(h1) <= Len(h2)
    /\ \A i \in 1..Len(h1) : h2[i] = h1[i]

\* C25 (as claimed): every turn that is answered appends its user text as
\* the last element of the session's stored history, and the history stored
\* before a turn is a prefix of the history stored after it.
C25_HistoryAppendOnly ==
    /\ (TurnTaken /\ last.kind # "abort") =>
          /\ HasSession(last.sid)
          /\ Stored(last.sid).userText_history
                = (IF last.existed THEN last.prior.userText_history ELSE <<>>)
                     \o <<last.text>>
    /\ (TurnTaken /\ last.existed) =>
          IsPrefix(last.prior.userText_history, Stored(last.sid).userText_history)

\* the clarifier ran on a state that awaits p = missing_params[0] with a
\* non-empty trimmed reply
ReplyGiven ==
    /\ Routed
    /\ routeIn.awaiting_input /\ routeIn.missing_params # <<>>
    /\ Strip(routeIn.userText) # ""

\* C26: with awaiting_input true, missing_params = [p] + rest and a
\* non-empty trimmed reply, after ClarificationNode.run context[p] is the
\* trimmed reply, missing_params is rest, every other context key is
\* unchanged, and if rest is non-empty awaiting_input stays true, the
\* message asks for rest[0] and the routing that follows dispatches no
\* handler.
C26_OneParameterPerTurn ==
    ReplyGiven =>
        LET p == Head(routeIn.missing_params)
            rest == Tail(routeIn.missing_params)
            out == routeOut.state
        IN  /\ out.context[p] = Strip(routeIn.userText)
            /\ out.missing_params = rest
            /\ \A k \in Keys \ {p} : out.context[k] = routeIn.context[k]
            /\ rest # <<>> =>
                  /\ out.awaiting_input
                  /\ AsksAbout(out.message, Head(rest))
                  /\ routeOut.ret = NoneVal
            /\ rest = <<>> => ~out.awaiting_input

C26_Witness ==
    /\ ReplyGiven
    /\ routeIn.missing_params = <<"table", "filters">>
    /\ routeIn.context["filters"] = "f"
    /\ routeOut.state.missing_params = <<"filters">>
    /\ routeOut.state.context["table"] = "dept"
    /\ routeOut.state.message = MsgThanks("table", "dept", "filters")
    /\ routeOut.ret = NoneVal

\* the clarifier ran with no missing parameter recorded: fresh detection
FreshDetectionRan ==
    Routed /\ ~(routeIn.awaiting_input /\ routeIn.missing_params # <<>>)

\* the parameters the intent's handler requires that the context lacks
RequiredMissing(st) ==
    IF HandlerFor(st.intent) # "none" /\ ~Truthy(st.context["table"])
    THEN <<"table">>
    ELSE <<>>

\* C27 (as claimed): with no missing_params recorded, the clarification step
\* computes the parameters required by the current intent that are absent
\* from context; if any are missing it sets awaiting_input = true,
\* missing_params to that list and asks for the first one, otherwise it
\* clears awaiting_input and missing_params; for every intent that has a
\* handler a missing table is detected.
C27_FreshDetection ==
    FreshDetectionRan =>
        LET missing == RequiredMissing(routeIn)
            out == routeOut.state
        IN  IF missing # <<>>
            THEN /\ out.awaiting_input
                 /\ out.missing_params = missing
                 /\ out.message = MsgAsk(Head(missing))
            ELSE /\ ~out.awaiting_input
                 /\ out.missing_params = <<>>

\* the state handed to the graph in the last turn already had an intent
IntentKnown == RouterRan /\ Truthy(last.merged.intent)

\* C28: the classifier is invoked only when the state's intent is unset and
\* the user text is non-empty; when the intent is already set at the start
\* of the detection step, the step leaves the intent and every other field
\* unchanged, whatever the classifier would have answered, and the turn is
\* routed on the intent it started with.
C28_ClassifierOnlyWhenUnset ==
    /\ RouterRan => last.text # ""
    /\ IntentKnown =>
          /\ \A c \in ClassifierOutcomes :
                IntentDetectionNode_run(last.merged, c) = last.merged
          /\ last.entering.intent = last.merged.intent
          /\ last.final.provenance = last.merged.provenance
    /\ (RouterRan /\ ~IntentKnown) =>
          /\ last.merged.intent = Unset
          /\ Routed1.intent = (IF last.cls = "raise" THEN "None" ELSE last.cls)

C28_Witness ==
    /\ IntentKnown
    /\ last.existed /\ last.prior.awaiting_input
    /\ last.merged.intent = "schema"
    /\ last.final.intent = "schema"

\* the last turn answered a session that was persisted asking for the intent
LeavingIntentQuestion ==
    /\ RouterRan /\ last.existed
    /\ last.prior.awaiting_input /\ last.prior.missing_params = <<"intent">>

SupportedIntents == {"nulls", "distincts"}

\* the last routing decision of the turn had the classifier mapped the
\* text to intent c
DecisionIfClassified(c) ==
    LET g == build_profiling_graph(last.merged, c, last.ext, "ok")
    IN  g.decisions[Len(g.decisions)]

\* C29 (as claimed): from a persisted state with awaiting_input = true and
\* missing_params = [intent], a following non-empty turn whose text the
\* classifier maps to a supported intent leads to that intent's handler
\* being dispatched, not to the intent question being asked again.
C29_CanLeaveIntentQuestion ==
    LeavingIntentQuestion =>
        /\ \A c \in SupportedIntents : DecisionIfClassified(c) = HandlerFor(c)
        /\ last.cls \in SupportedIntents => LastDecision = HandlerFor(last.cls)

\* C30: a handler is dispatched only from a state with awaiting_input =
\* false, no parameter recorded as missing and an intent that maps to it; at
\* most one handler runs per turn; no handler runs in a turn that ends with
\* the router's stop decision.
C30_DispatchOnlyWhenReady ==
    RouterRan =>
        /\ NodeRuns(HandlerNodes) <= 1
        /\ NodeRuns(HandlerNodes) = 1 =>
              /\ ~last.entering.awaiting_input
              /\ last.entering.missing_params = <<>>
              /\ LastDecision = HandlerFor(last.entering.intent)
              /\ last.nodes[Len(last.nodes)] = LastDecision
              /\ last.prior.awaiting_input => last.decisions[1] = "clarify"
        /\ LastDecision = NoneVal =>
              /\ NodeRuns(HandlerNodes) = 0
              /\ last.hkind = "none"
        /\ last.hkind # "none" => NodeRuns(HandlerNodes) = 1

C30_Witness ==
    /\ RouterRan /\ NodeRuns(HandlerNodes) = 1
    /\ last.nodes = <<"intent_detect", "clarify", "null_count">>
    /\ last.prior.awaiting_input /\ ~last.entering.awaiting_input
    /\ last.hkind = "soft"

\* the last turn was persisted and no handler completed in it
NoHandlerCompleted == last.kind = "done" /\ last.hkind # "ok"

\* C31 (as claimed): in a turn where no handler completed (clarifying
\* question, guidance, unsupported intent, handler soft failure) the
\* payload and next_prompt persisted and returned carry no result of an
\* earlier turn of the session.
C31_NoStalePayload ==
    NoHandlerCompleted
        => /\ Stored(last.sid).payload = NoPayload
           /\ Stored(last.sid).next_prompt = NoPayload
           /\ last.response.payload = "minimal"
           /\ last.response.next_prompt = NoPayload

\* a handler was dispatched, found no table in the context and could
\* extract none from the text
DispatchedWithoutTable == last.kind = "done" /\ last.hkind = "delegated"

\* C32 (as claimed): whenever a handler is dispatched and the table is
\* absent from context and cannot be extracted from the text, the turn ends
\* with awaiting_input = true, missing_params = [table] and a question for
\* the table, for both handlers and every intent string the router maps to
\* them.
C32_DispatchWithoutTableAsks ==
    DispatchedWithoutTable
        => /\ LastDecision \in HandlerNodes
           /\ Stored(last.sid).awaiting_input
           /\ Stored(last.sid).missing_params = <<"table">>
           /\ AsksAbout(last.response.message, "table")

\* C33: in every turn, the routing decision taken after the clarify node is
\* never clarify; equivalently the state the clarify node leaves never has
\* awaiting_input and resumed both true, so the graph never meets a
\* decision for which the clarify node has no edge.
C33_NoClarifyAfterClarify ==
    RouterRanTwice
        => /\ last.decisions[1] = "clarify"
           /\ last.decisions[2] # "clarify"
           /\ ~(Routed2.awaiting_input /\ Routed2.resumed)
           /\ route_by_intent(Routed2).ret = last.decisions[2]

C33_Witness ==
    /\ RouterRanTwice
    /\ last.merged.awaiting_input /\ last.merged.resumed
    /\ ~Routed2.resumed
    /\ Routed2.message = MsgGot("intent", "dept")
    /\ last.decisions[2] = NoneVal

\* the last turn reached the graph on a session that was already stored
ExistingSessionTurn == RouterRan /\ last.existed

====
